---------------------------- MODULE Spec2Model ----------------------------
(***************************************************************************)
(* Share-link access control of the baby timeline application.             *)
(*                                                                         *)
(* The store is the share_links table (src/src/sharing.py reads and writes *)
(* it through the Supabase client).  Every query of the client is one      *)
(* atomic store operation that either answers or raises.  The four public  *)
(* functions of src/src/sharing.py are operators computed as the code      *)
(* computes them; the actions apply them to the table.                     *)
(*                                                                         *)
(* Specifications:                                                         *)
(*   Spec       complete calls, one after the other (section 5 of the      *)
(*              specification: one request at a time);                     *)
(*   SpecExpiry complete calls on rows that may carry an expiry;           *)
(*   SpecOwner  complete calls, with and without the owner's client;       *)
(*   SpecConc   the store operations of calls made from different sessions *)
(*              interleave (each Streamlit session runs its own script     *)
(*              thread against the same table);                            *)
(*   SpecRevoke revokes among such interleaved calls;                      *)
(*   SpecApp    the script runs of src/app.py in the viewers' sessions,    *)
(*              with the owner issuing and revoking links;                 *)
(*   SpecClock  complete calls as time passes;                             *)
(*   SpecWrites generate_share_link and revoke_share_link calls alone;     *)
(*   SpecView   what a granted viewer is shown;                            *)
(*   SpecRoute  viewers' sessions whose URL changes between runs;          *)
(*   SpecAuth   login and logout (src/src/auth.py) in a session;           *)
(*   SpecPages  the admin pages behind require_auth().                     *)
(*                                                                         *)
(* Not modelled: the provenance columns created_at / created_by, which no  *)
(* operation reads; the text of str(e) inside the error messages.          *)
(***************************************************************************)
EXTENDS Integers, Sequences, FiniteSets, TLC

VARIABLES
    links,    \* the share_links table, rows in insertion order
    now,      \* the wall clock read by datetime.now()
    calls,    \* per session: the generate_share_link call in progress
    last,     \* the call that completed last, its arguments and its result
    st        \* per Streamlit session: st.session_state, st.query_params and
              \* the page the last script run rendered

vars == <<links, now, calls, last, st>>

-----------------------------------------------------------------------------
(* Bounds *)

\* rows the table may hold
MaxLinks == 2
\* rows the table may hold where links expire (SpecExpiry)
MaxExpiryLinks == 1
\* last instant of the clock
MaxTime == 1
\* salts bcrypt.gensalt() may draw
NumSalts == 1
\* rows the table may hold where the viewers' sessions run (SpecApp)
MaxAppLinks == 2
\* rows the table may hold while the clock runs (SpecClock)
MaxClockLinks == 1
\* rows the table may hold where the admin logs in and out (SpecAuth)
MaxAuthLinks == 1

-----------------------------------------------------------------------------
(* Values *)

\* Python's None where a string is expected
None == "None"
\* a NULL column holding a structured value (password_hash, expires_at)
Null == <<>>

Babies == {"baby-1", "baby-2"}
Sessions == {"s1", "s2"}
\* the sessions that open the application where the script runs are followed
\* (SpecApp); the owner's calls reach the table from outside them
Viewers == {"s1"}
Times == 0..MaxTime
Salts == 1..NumSalts
\* the opaque tokens uuid4 may draw
Tokens == 1..(MaxLinks + 1)
\* what a visitor may present as share_token: any token, also one never issued
TokenArgs == 0..MaxLinks
\* the password argument of generate_share_link
IssuePasswords == {None, "", "1234"}
\* the password argument of validate_share_token
PasswordArgs == {None, "", "1234", "wrong"}

\* variant: `is not None` in place of truthiness, "" counts as a password
Truthy_NotNone(s) == s # None

\* Python truthiness of an Optional[str]: None and "" are falsy
Truthy(s) == s # None /\ s # ""

\* the exceptions the Supabase client may raise, by their message
StoreExceptions == {"violates row-level security", "connection error"}
StoreOutcomes == {"ok"} \cup StoreExceptions
\* a select answers or fails: row-level security filters rows, it raises nothing
ReadOutcomes == {"ok", "connection error"}
\* an insert may also answer with no data
InsertOutcomes == StoreOutcomes \cup {"no data"}

\* row-level security of the store, for a client that is not the signed-in
\* owner of the baby: an update is answered without an error and reaches no
\* row, or is rejected; an insert is rejected
StrangerUpdateOutcomes == {"no rows"} \cup StoreExceptions
StrangerInsertOutcomes == StoreExceptions


-----------------------------------------------------------------------------
(* bcrypt: a salted one-way hash.  The hash carries its salt; checking a   *)
(* password hashes it again with the salt of the stored hash.              *)

bcrypt_hashpw(password, salt) == <<salt, password>>

bcrypt_checkpw(password, hashed) == bcrypt_hashpw(password, hashed[1]) = hashed

-----------------------------------------------------------------------------
(* The share_links table and its queries *)

\* variant: the new row inserted with is_active False
Row_Inactive(baby_id, share_token, password_hash) ==
    [baby_id |-> baby_id, share_token |-> share_token,
     password_hash |-> password_hash, is_active |-> FALSE, expires_at |-> Null]

\* variant: the new row inserted with an expiry, the time of the first tick
Row_Expiring(baby_id, share_token, password_hash) ==
    [baby_id |-> baby_id, share_token |-> share_token,
     password_hash |-> password_hash, is_active |-> TRUE, expires_at |-> <<0>>]

\* the payload names no expires_at; the column is left at NULL
Row(baby_id, share_token, password_hash) ==
    [baby_id |-> baby_id, share_token |-> share_token,
     password_hash |-> password_hash, is_active |-> TRUE, expires_at |-> Null]

\* the rows a select / update filter matches, as row numbers
ActiveOfBaby(ls, baby_id) ==
    {i \in DOMAIN ls : ls[i].baby_id = baby_id /\ ls[i].is_active}

\* variant: the update of the old links left out
DeactivateBaby_Skipped(ls, baby_id) == ls

\* variant: the old links are deleted, not deactivated
DeactivateBaby_Deleted(ls, baby_id) ==
    SelectSeq(ls, LAMBDA r : r.baby_id # baby_id)

\* variant: the update writes is_active True
DeactivateBaby_Reactivated(ls, baby_id) ==
    [i \in DOMAIN ls |->
        IF ls[i].baby_id = baby_id THEN [ls[i] EXCEPT !.is_active = TRUE] ELSE ls[i]]

\* variant: the baby_id filter left out of the update
DeactivateBaby_AllBabies(ls, baby_id) ==
    [i \in DOMAIN ls |-> [ls[i] EXCEPT !.is_active = FALSE]]

\* update({"is_active": False}).eq("baby_id", baby_id)
DeactivateBaby(ls, baby_id) ==
    [i \in DOMAIN ls |->
        IF ls[i].baby_id = baby_id THEN [ls[i] EXCEPT !.is_active = FALSE] ELSE ls[i]]

\* variant: the update reports the rows it matched and writes none of them
DeactivateActive_NotWritten(ls, baby_id) == ls

\* update({"is_active": False}).eq("baby_id", baby_id).eq("is_active", True)
DeactivateActive(ls, baby_id) ==
    [i \in DOMAIN ls |->
        IF i \in ActiveOfBaby(ls, baby_id) THEN [ls[i] EXCEPT !.is_active = FALSE] ELSE ls[i]]

\* insert({...}): the new row goes last
InsertRow(ls, row) == Append(ls, row)

\* the tokens already drawn: stored, or held by a call in progress
UsedTokens ==
    {links[i].share_token : i \in DOMAIN links}
        \cup {calls[s].share_token : s \in {x \in Sessions : calls[x].pc # "idle"}}

\* str(uuid.uuid4()): a token no earlier draw produced
uuid4 == CHOOSE t \in Tokens \ UsedTokens : \A u \in Tokens \ UsedTokens : t <= u

-----------------------------------------------------------------------------
(* generate_share_link *)

\* the password_hash column of the new row
HashOf(password, salt) ==
    IF Truthy(password) THEN bcrypt_hashpw(password, salt) ELSE Null

\* f"{base_url}/?share_token={share_token}"
ShareUrl(share_token) == <<"BASE_URL", "/?share_token=", share_token>>

\* variant: one message for every exception
GenerateFailure_Generic(error_msg) ==
    <<FALSE, "Failed to generate link", None>>

\* the except branch: the message decides between the two failures
GenerateFailure(error_msg) ==
    IF error_msg = "violates row-level security"
    THEN <<FALSE, "Permission denied. Please log in as admin.", None>>
    ELSE <<FALSE, "Failed to generate link", None>>

\* first store operation: deactivate the old links of the baby.  The update
\* may be answered without an error and have reached no row
GenerateDeactivate(ls, baby_id, outcome) ==
    IF outcome = "ok"
    THEN [links |-> DeactivateBaby(ls, baby_id), raised |-> FALSE]
    ELSE IF outcome = "no rows"
    THEN [links |-> ls, raised |-> FALSE]
    ELSE [links |-> ls, raised |-> TRUE]

\* second store operation: insert the new link, then build the result.  An
\* insert that raises or answers with no data stores nothing, and the call
\* ends in the except branch
GenerateInsert(ls, baby_id, share_token, password_hash, outcome) ==
    IF outcome = "ok"
    THEN [links |-> InsertRow(ls, Row(baby_id, share_token, password_hash)),
          result |-> <<TRUE, ShareUrl(share_token), share_token>>]
    ELSE [links |-> ls, result |-> GenerateFailure(outcome)]

\* the whole function: the table it leaves and the tuple it returns
generate_share_link(ls, baby_id, password, salt, share_token, outcome1, outcome2) ==
    LET password_hash == HashOf(password, salt)
        first == GenerateDeactivate(ls, baby_id, outcome1)
    IN  IF first.raised
        THEN [links |-> first.links, result |-> GenerateFailure(outcome1)]
        ELSE GenerateInsert(first.links, baby_id, share_token, password_hash, outcome2)

-----------------------------------------------------------------------------
(* validate_share_token *)

ValidationError(e) ==
    IF e = "violates row-level security"
    THEN "Validation error: violates row-level security"
    ELSE "Validation error: connection error"

\* datetime.now(expires_at.tzinfo) > expires_at, for a row whose expires_at is set
Expired(link, clock) == link.expires_at # Null /\ clock > link.expires_at[1]

\* variant: the is_active filter left out of the lookup
LookupToken_AnyRow(ls, token) ==
    SelectSeq(ls, LAMBDA r : r.share_token = token)

\* select("*").eq("share_token", token).eq("is_active", True)
LookupToken(ls, token) ==
    SelectSeq(ls, LAMBDA r : r.share_token = token /\ r.is_active)

\* variant: any password supplied is taken, bcrypt.checkpw left out
CheckPassword_Unchecked(link, password) ==
    IF link.password_hash # Null /\ ~Truthy(password)
    THEN <<FALSE, "password_required">>
    ELSE <<TRUE, link.baby_id>>

\* the password check on the row found
CheckPassword(link, password) ==
    IF link.password_hash # Null /\ ~Truthy(password)
    THEN <<FALSE, "password_required">>
    ELSE IF link.password_hash # Null /\ ~bcrypt_checkpw(password, link.password_hash)
    THEN <<FALSE, "Incorrect password">>
    ELSE <<TRUE, link.baby_id>>

\* variant: the password is checked before the expiry
CheckLink_PasswordFirst(link, clock, password) ==
    IF ~CheckPassword(link, password)[1]
    THEN CheckPassword(link, password)
    ELSE IF Expired(link, clock)
    THEN <<FALSE, "This share link has expired">>
    ELSE CheckPassword(link, password)

\* variant: a password is asked for whether or not the row has a hash
CheckLink_AlwaysAsk(link, clock, password) ==
    IF Expired(link, clock)
    THEN <<FALSE, "This share link has expired">>
    ELSE IF ~Truthy(password)
    THEN <<FALSE, "password_required">>
    ELSE CheckPassword(link, password)

\* the checks on the row found: expiry first, then the password
CheckLink(link, clock, password) ==
    IF Expired(link, clock)
    THEN <<FALSE, "This share link has expired">>
    ELSE CheckPassword(link, password)

\* the try block: the tuple it returns, or the exception it raises
ValidateBody(ls, clock, token, password, outcome) ==
    IF outcome # "ok"
    THEN [raised |-> TRUE, exc |-> outcome, value |-> <<>>]
    ELSE LET data == LookupToken(ls, token)
         IN  [raised |-> FALSE, exc |-> None,
              value |-> IF data = <<>>
                        THEN <<FALSE, "Invalid or expired share link">>
                        ELSE CheckLink(data[1], clock, password)]

\* variant: no except clause, the exception reaches the caller
validate_share_token_NoExcept(ls, clock, token, password, outcome) ==
    ValidateBody(ls, clock, token, password, outcome)

\* the function with its except clause: every exception becomes a denial.
\* What the caller gets: a returned tuple (value), or an exception (raised)
validate_share_token(ls, clock, token, password, outcome) ==
    LET body == ValidateBody(ls, clock, token, password, outcome)
    IN  IF body.raised
        THEN [raised |-> FALSE, exc |-> None,
              value |-> <<FALSE, ValidationError(body.exc)>>]
        ELSE body

\* the three outcomes, as the callers tell them apart (src/app.py main)
Granted(r) == r[1]
PasswordRequired(r) == ~r[1] /\ r[2] = "password_required"
Denied(r) == ~r[1] /\ r[2] # "password_required"

-----------------------------------------------------------------------------
(* revoke_share_link *)

\* variant: the `if not result.data` test left out
revoke_share_link_NoEmptyCheck(ls, baby_id, outcome) ==
    IF outcome # "ok"
    THEN [links |-> ls, data |-> {}, result |-> <<FALSE, "Failed to revoke links">>]
    ELSE LET data == ActiveOfBaby(ls, baby_id)
         IN  [links |-> DeactivateActive(ls, baby_id),
              data |-> {ls[i].share_token : i \in data},
              result |-> <<TRUE, <<"Revoked", Cardinality(data), "active link(s)">>>>]

\* variant: the is_active filter left out of the update, so that every row of
\* the baby is written and returned
revoke_share_link_NoActiveFilter(ls, baby_id, outcome) ==
    IF outcome # "ok"
    THEN [links |-> ls, data |-> {}, result |-> <<FALSE, "Failed to revoke links">>]
    ELSE LET data == {i \in DOMAIN ls : ls[i].baby_id = baby_id}
         IN  [links |-> DeactivateBaby(ls, baby_id),
              data |-> {ls[i].share_token : i \in data},
              result |-> IF data = {}
                         THEN <<FALSE, "No active links found to revoke">>
                         ELSE <<TRUE, <<"Revoked", Cardinality(data), "active link(s)">>>>]

\* the table it leaves, the tokens of result.data and the tuple it returns
revoke_share_link(ls, baby_id, outcome) ==
    IF outcome # "ok"
    THEN [links |-> ls, data |-> {}, result |-> <<FALSE, "Failed to revoke links">>]
    ELSE LET data == ActiveOfBaby(ls, baby_id)
         IN  [links |-> DeactivateActive(ls, baby_id),
              data |-> {ls[i].share_token : i \in data},
              result |-> IF data = {}
                         THEN <<FALSE, "No active links found to revoke">>
                         ELSE <<TRUE, <<"Revoked", Cardinality(data), "active link(s)">>>>]

-----------------------------------------------------------------------------
(* get_active_share_link *)

\* variant: the share_token column of the row returned is masked
get_active_share_link_Masked(ls, baby_id, outcome) ==
    IF outcome # "ok" \/ ActiveOfBaby(ls, baby_id) = {}
    THEN {Null}
    ELSE {[ls[i] EXCEPT !.share_token = 0] : i \in ActiveOfBaby(ls, baby_id)}

\* the values the function may return: result.data[0] of a select with no
\* ORDER BY is any of the matching rows; None when there is none or on error
get_active_share_link(ls, baby_id, outcome) ==
    IF outcome # "ok" \/ ActiveOfBaby(ls, baby_id) = {}
    THEN {Null}
    ELSE {ls[i] : i \in ActiveOfBaby(ls, baby_id)}

-----------------------------------------------------------------------------
(* src/app.py: the script run in a browser session *)

\* a dict, as the function of the keys it holds
EmptyDict == [k \in {} |-> TRUE]
Set(d, key, value) ==
    [k \in DOMAIN d \cup {key} |-> IF k = key THEN value ELSE d[k]]
Del(d, key) == [k \in DOMAIN d \ {key} |-> d[k]]

\* st.query_params of a page opened with ?share_token=<token>; EmptyDict is
\* the page opened without it.  Every token is a non-empty string, so that
\* `if share_token:` tests the presence of the parameter
QueryOf(token) == [k \in {"share_token"} |-> token]
Queries == {EmptyDict} \cup {QueryOf(t) : t \in TokenArgs}

\* the babies query of a granted viewer: a row, no row, or an exception
FetchOutcomes == {"ok", "no data", "connection error"}

\* what a script run rendered: the page, and the message of its st.error
Page(name, error) == [page |-> name, error |-> error]
\* before the first run of a session
NoPage == Page("none", None)

\* what a script run leaves: st.session_state, whether it ended in st.rerun(),
\* the page it rendered, and the validate_share_token calls it made
Ran(d, rerun, view, validations) ==
    [session_state |-> d, rerun |-> rerun, view |-> view, validations |-> validations]

\* the three assignments that store a validated viewer
GrantViewer(d, baby_id) ==
    Set(Set(Set(d, "viewer_authenticated", TRUE), "viewer_baby_id", baby_id),
        "viewer_mode", TRUE)

\* Exit Viewer Mode: for key in [...]: if key in st.session_state: del ...
ClearViewer(d) ==
    LET del(x, key) == IF key \in DOMAIN x THEN Del(x, key) ELSE x
    IN  del(del(del(d, "viewer_authenticated"), "viewer_baby_id"), "viewer_mode")

\* variant: the stored grant is never found, every run validates again
ViewerAuthenticated_Never(d) == FALSE

\* st.session_state.get("viewer_authenticated") and
\* st.session_state.get("viewer_baby_id")
ViewerAuthenticated(d) ==
    /\ "viewer_authenticated" \in DOMAIN d /\ d["viewer_authenticated"]
    /\ "viewer_baby_id" \in DOMAIN d /\ Truthy(d["viewer_baby_id"])

\* st.session_state.get("authenticated", False)
is_authenticated(d) == "authenticated" \in DOMAIN d /\ d["authenticated"]

\* variant: every failed probe leads to the password prompt
ProbeBranch_PromptOnFailure(r) ==
    IF Granted(r) THEN "grant" ELSE "prompt"

\* main's three-way branch on the probe validate_share_token(token, None)
ProbeBranch(r) ==
    IF Granted(r) THEN "grant"
    ELSE IF r[2] = "password_required" THEN "prompt"
    ELSE "deny"

\* variant: the form handler stores the session whatever the validation says
FormBranch_NoCheck(r) == "grant"

\* the form handler's branch on validate_share_token(token, password)
FormBranch(r) == IF Granted(r) THEN "grant" ELSE "deny"

\* show_viewer_login: the password form and, when the run was started by its
\* submit button, the handler of the form
show_viewer_login(d, ls, clock, share_token, submitted, password, outcome, probe) ==
    IF ~submitted
    THEN Ran(d, FALSE, Page("password_form", None), probe)
    ELSE IF ~Truthy(password)
    THEN Ran(d, FALSE, Page("password_form", "Please enter the password"), probe)
    ELSE LET v == validate_share_token(ls, clock, share_token, password, outcome)
             validations == Append(probe, [password |-> password, result |-> v.value])
         IN  IF v.raised
             THEN Ran(d, FALSE, Page("exception", v.exc), probe)
             ELSE IF FormBranch(v.value) = "grant"
             THEN Ran(GrantViewer(d, v.value[2]), TRUE,
                      Page("password_form", None), validations)
             ELSE Ran(d, FALSE, Page("password_form", v.value[2]), validations)

\* the page shown when the babies query raised, or returned no row
FetchFailure(fetch) ==
    IF fetch = "no data"
    THEN Page("not_found", "Timeline not found or access has been revoked")
    ELSE Page("error_loading", fetch)

\* main, for a session that holds a grant: the babies row is fetched, then the
\* sidebar (whose Exit Viewer Mode button may have started this run) and the
\* timeline are shown
ViewerTimeline(d, event, fetch) ==
    IF fetch = "connection error"
    THEN Ran(d, FALSE, FetchFailure(fetch), <<>>)
    ELSE IF fetch = "no data"
    THEN Ran(d, FALSE, FetchFailure(fetch), <<>>)
    ELSE IF event = "exit"
    THEN Ran(ClearViewer(d), TRUE, Page("timeline", None), <<>>)
    ELSE Ran(Set(d, "viewer_mode", TRUE), FALSE, Page("timeline", None), <<>>)

\* variant: a stored grant is honoured only while the token of the URL
\* validates
main_Revalidating(d, query_params, ls, clock, event, password, o) ==
    IF "share_token" \in DOMAIN query_params
    THEN LET share_token == query_params["share_token"]
             v == validate_share_token(ls, clock, share_token, None, o.probe)
             probe == <<[password |-> None, result |-> v.value]>>
         IN  IF v.raised
             THEN Ran(d, FALSE, Page("exception", v.exc), <<>>)
             ELSE IF ViewerAuthenticated(d) /\ ProbeBranch(v.value) # "deny"
             THEN [ViewerTimeline(d, event, o.fetch) EXCEPT !.validations = probe]
             ELSE IF ProbeBranch(v.value) = "grant"
             THEN Ran(GrantViewer(d, v.value[2]), TRUE, NoPage, probe)
             ELSE IF ProbeBranch(v.value) = "prompt"
             THEN show_viewer_login(d, ls, clock, share_token,
                                    event = "submit", password, o.form, probe)
             ELSE Ran(d, FALSE, Page("denied", v.value[2]), probe)
    ELSE IF ~is_authenticated(d)
    THEN Ran(d, FALSE, Page("login", None), <<>>)
    ELSE Ran(d, FALSE, Page("admin", None), <<>>)

\* one run of main().  event is what started the run: "open" (page load),
\* "load" (any other rerun), "submit" (the password form), "exit" (the Exit
\* Viewer Mode button); o gives the outcome of each store query of the run
main(d, query_params, ls, clock, event, password, o) ==
    IF "share_token" \in DOMAIN query_params
    THEN IF ViewerAuthenticated(d)
         THEN ViewerTimeline(d, event, o.fetch)
         ELSE LET share_token == query_params["share_token"]
                  v == validate_share_token(ls, clock, share_token, None, o.probe)
                  probe == <<[password |-> None, result |-> v.value]>>
              IN  IF v.raised
                  THEN Ran(d, FALSE, Page("exception", v.exc), <<>>)
                  ELSE IF ProbeBranch(v.value) = "grant"
                  THEN Ran(GrantViewer(d, v.value[2]), TRUE, NoPage, probe)
                  ELSE IF ProbeBranch(v.value) = "prompt"
                  THEN show_viewer_login(d, ls, clock, share_token,
                                         event = "submit", password, o.form, probe)
                  ELSE Ran(d, FALSE, Page("denied", v.value[2]), probe)
    ELSE IF ~is_authenticated(d)
    THEN Ran(d, FALSE, Page("login", None), <<>>)
    ELSE Ran(d, FALSE, Page("admin", None), <<>>)

\* a handler from the event to the page at rest: the run the event starts and
\* the runs that st.rerun() starts after it.  No third run ends in st.rerun()
Runs(d, query_params, ls, clock, event, password, o1, o2) ==
    LET Rest(rs) ==
            IF ~rs[Len(rs)].rerun
            THEN rs
            ELSE Append(rs, main(rs[Len(rs)].session_state, query_params, ls, clock,
                                 "load", None, o2))
    IN  Rest(Rest(<<main(d, query_params, ls, clock, event, password, o1)>>))

\* a browser session before its first run
NewSession ==
    [session_state |-> EmptyDict, query_params |-> EmptyDict, view |-> NoPage]

-----------------------------------------------------------------------------
(* What a viewer is shown: show_timeline and the Growth Chart page *)

\* the babies rows the client made by init_supabase() may read.  The client
\* carries the anon key and nothing of the session, so what it may read is
\* the same in every viewer's session: main reads the row of any granted
\* viewer's baby with it, and a grant is given for a baby with an active link
AnonBabies(ls) == {b \in Babies : ActiveOfBaby(ls, b) # {}}

\* show_timeline in a viewer's session: get_supabase_client() finds no client
\* in the session and returns init_supabase(); babies is read with
\* select("*") and no filter, and the timeline is that of babies.data[0], any
\* of the rows read.  The babies whose timeline may be rendered
show_timeline(d, ls) == AnonBabies(ls) \cup {d["viewer_baby_id"]}

\* the access check of the Growth Chart page for a session that is not the
\* admin's: viewer_mode and viewer_baby_id
is_viewer(d) ==
    /\ "viewer_mode" \in DOMAIN d /\ d["viewer_mode"]
    /\ "viewer_baby_id" \in DOMAIN d /\ Truthy(d["viewer_baby_id"])

\* the Growth Chart page for a viewer: babies is read with
\* eq("baby_id", viewer_baby_id).  The baby whose chart is rendered
growth_chart(d) == d["viewer_baby_id"]

-----------------------------------------------------------------------------
(* src/src/auth.py: login and logout, and the handlers that call them *)

\* what supabase.auth.sign_in_with_password gives login: an AuthResponse, whose
\* user and session are both Optional, or an exception
SignInOutcomes ==
    {"user and session", "user, no session", "no user",
     "Invalid login credentials", "connection error"}

\* what supabase.auth.sign_out gives logout
SignOutOutcomes == {"ok", "connection error"}

\* the except clause: the message for the exception
LoginError(exc) ==
    IF exc = "Invalid login credentials"
    THEN "Invalid email or password. Please try again."
    ELSE <<"Login error:", exc>>

\* login: the session state it leaves and the tuple it returns.  The four
\* assignments run in order; `response.session.access_token` raises
\* AttributeError when the response has no session, after the first two
login(d, sign_in) ==
    IF sign_in \in {"Invalid login credentials", "connection error"}
    THEN [session_state |-> d, result |-> <<FALSE, LoginError(sign_in)>>]
    ELSE IF sign_in = "no user"
    THEN [session_state |-> d, result |-> <<FALSE, "Login failed: No user returned">>]
    ELSE LET d2 == Set(Set(d, "authenticated", TRUE), "user", "user")
         IN  IF sign_in = "user, no session"
             THEN [session_state |-> d2,
                   result |-> <<FALSE, LoginError("'NoneType' object has no attribute 'access_token'")>>]
             ELSE [session_state |-> Set(Set(d2, "access_token", "jwt"), "supabase", "client"),
                   result |-> <<TRUE, "Welcome">>]

\* the submit handler of the login form: st.rerun() on success, st.error on
\* failure
show_login_page(d, sign_in) ==
    LET r == login(d, sign_in)
    IN  IF r.result[1]
        THEN Ran(r.session_state, TRUE, Page("login", None), <<>>)
        ELSE Ran(r.session_state, FALSE, Page("login", r.result[2]), <<>>)

\* the pages whose script begins with require_auth()
AdminPages == {"upload_photo", "add_measurement", "sharing"}

\* variant: the messages are shown and the script goes on, no st.stop()
require_auth_NoStop(d, page) == Page(page, "Access Denied")

\* require_auth at the top of a page's script: st.error and st.stop() unless
\* is_authenticated().  The page the run renders
require_auth(d, page) ==
    IF ~is_authenticated(d) THEN Page("access_denied", "Access Denied")
    ELSE Page(page, None)

\* variant: the keys are deleted after the try block, not in a finally
\* clause, and the except clause is missing
logout_NoFinally(d, sign_out) ==
    IF "supabase" \in DOMAIN d /\ sign_out # "ok"
    THEN Ran(d, FALSE, Page("exception", sign_out), <<>>)
    ELSE Ran(EmptyDict, TRUE, Page("admin", None), <<>>)

\* logout: sign_out is called when the session holds a client, its exception
\* is caught; the finally clause deletes every key and calls st.rerun()
logout(d, sign_out) ==
    Ran([k \in DOMAIN d \ DOMAIN d |-> d[k]], TRUE, Page("admin", None), <<>>)

-----------------------------------------------------------------------------
(* State *)

\* no generate_share_link call in progress in the session.  old_tokens and
\* observed are history, not program state: the tokens that were active for
\* the baby when the call began, and whether another session has since been
\* told that none of them is active
Idle ==
    [pc |-> "idle", baby_id |-> None, password |-> None, share_token |-> 0,
     password_hash |-> Null, old_tokens |-> {}, observed |-> FALSE]

NoCall == [op |-> "none"]

Init ==
    /\ links = <<>>
    /\ now = 0
    /\ calls = [s \in Sessions |-> Idle]
    /\ last = NoCall
    /\ st = [s \in Sessions |-> NewSession]

-----------------------------------------------------------------------------
(* Actions: complete calls *)

\* generate_share_link, from its first line to its return
Issue(baby_id, password) ==
    /\ \A x \in Sessions : calls[x].pc = "idle"
    /\ \E salt \in Salts, outcome1 \in StoreOutcomes :
       \E outcome2 \in IF outcome1 = "ok" THEN InsertOutcomes ELSE {"ok"} :
          LET r == generate_share_link(links, baby_id, password, salt, uuid4,
                                       outcome1, outcome2)
          IN  /\ r.result[1] => Len(links) < MaxLinks
              /\ links' = r.links
              /\ last' = [op |-> "generate_share_link", owner |-> TRUE,
                          baby_id |-> baby_id, password |-> password,
                          failed_at |-> IF outcome1 # "ok" THEN "deactivate"
                                        ELSE IF outcome2 # "ok" THEN "insert"
                                        ELSE "nowhere",
                          old_tokens |-> {links[i].share_token :
                                             i \in ActiveOfBaby(links, baby_id)},
                          observed |-> FALSE,
                          result |-> r.result]
    /\ UNCHANGED <<now, calls, st>>

\* generate_share_link called with a client that is not the signed-in owner of
\* the baby
IssueByStranger(baby_id, password) ==
    /\ \A x \in Sessions : calls[x].pc = "idle"
    /\ \E salt \in Salts, outcome1 \in StrangerUpdateOutcomes :
       \E outcome2 \in IF outcome1 = "no rows" THEN StrangerInsertOutcomes ELSE {"ok"} :
          LET r == generate_share_link(links, baby_id, password, salt, uuid4,
                                       outcome1, outcome2)
          IN  /\ links' = r.links
              /\ last' = [op |-> "generate_share_link", owner |-> FALSE,
                          baby_id |-> baby_id, password |-> password,
                          failed_at |-> IF outcome1 # "no rows" THEN "deactivate"
                                        ELSE "insert",
                          exc |-> IF outcome1 # "no rows" THEN outcome1 ELSE outcome2,
                          old_tokens |-> {links[i].share_token :
                                             i \in ActiveOfBaby(links, baby_id)},
                          observed |-> FALSE,
                          result |-> r.result]
    /\ UNCHANGED <<now, calls, st>>

\* revoke_share_link.  old_tokens is history: the tokens that were active for
\* the baby when the call began
Revoke(baby_id) ==
    /\ \E outcome \in StoreOutcomes :
          LET r == revoke_share_link(links, baby_id, outcome)
          IN  /\ links' = r.links
              /\ last' = [op |-> "revoke_share_link",
                          baby_id |-> baby_id, outcome |-> outcome,
                          old_tokens |-> {links[i].share_token :
                                             i \in ActiveOfBaby(links, baby_id)},
                          data |-> r.data, result |-> r.result]
    /\ UNCHANGED <<now, calls, st>>

\* get_active_share_link, but for what other sessions' calls in progress record
GetActiveCall(baby_id) ==
    /\ \E outcome \in ReadOutcomes :
          \E r \in get_active_share_link(links, baby_id, outcome) :
              last' = [op |-> "get_active_share_link",
                       baby_id |-> baby_id, outcome |-> outcome, result |-> r]
    /\ UNCHANGED <<links, now, st>>

GetActive(baby_id) == GetActiveCall(baby_id) /\ UNCHANGED calls

\* variant: a select that found the link uses it up, the token works once
ValidateQuery_Consuming(ls, token) ==
    [i \in DOMAIN ls |->
        IF ls[i].share_token = token THEN [ls[i] EXCEPT !.is_active = FALSE] ELSE ls[i]]

\* the table after the one query of validate_share_token, a select
ValidateQuery(ls, token) == ls

\* validate_share_token, but for what other sessions' calls in progress record
ValidateCall(token, password) ==
    /\ \E outcome \in ReadOutcomes :
          LET r == validate_share_token(links, now, token, password, outcome)
          IN  last' = [op |-> "validate_share_token",
                       token |-> token, password |-> password, outcome |-> outcome,
                       raised |-> r.raised, result |-> r.value]
    /\ links' = ValidateQuery(links, token)
    /\ UNCHANGED <<now, st>>

Validate(token, password) == ValidateCall(token, password) /\ UNCHANGED calls

-----------------------------------------------------------------------------
(* Actions: the environment *)

\* time passes
Tick ==
    /\ now < MaxTime
    /\ now' = now + 1
    /\ last' = NoCall
    /\ UNCHANGED <<links, calls, st>>

\* no function of the application writes expires_at: the column is set on
\* the row outside the application (the table editor of the backend)
SetExpiresAt(i, t) ==
    /\ i \in DOMAIN links
    /\ links[i].expires_at = Null
    /\ links' = [links EXCEPT ![i].expires_at = <<t>>]
    /\ last' = NoCall
    /\ UNCHANGED <<now, calls, st>>

-----------------------------------------------------------------------------
(* Actions: generate_share_link one store operation at a time *)

\* lines 46-58: draw the token, hash the password, deactivate the old links
IssueDeactivate(s, baby_id, password) ==
    /\ calls[s].pc = "idle"
    /\ Len(links) + Cardinality({x \in Sessions : calls[x].pc # "idle"}) < MaxLinks
    /\ \E salt \in Salts, outcome \in StoreOutcomes :
          LET first == GenerateDeactivate(links, baby_id, outcome)
              old == {links[i].share_token : i \in ActiveOfBaby(links, baby_id)}
          IN  /\ links' = first.links
              /\ IF first.raised
                 THEN /\ calls' = calls
                      /\ last' = [op |-> "generate_share_link", owner |-> TRUE,
                                  baby_id |-> baby_id, password |-> password,
                                  failed_at |-> "deactivate", old_tokens |-> old,
                                  observed |-> FALSE,
                                  result |-> GenerateFailure(outcome)]
                 ELSE /\ calls' = [calls EXCEPT ![s] =
                                     [pc |-> "deactivated", baby_id |-> baby_id,
                                      password |-> password, share_token |-> uuid4,
                                      password_hash |-> HashOf(password, salt),
                                      old_tokens |-> old, observed |-> FALSE]]
                      /\ last' = NoCall
    /\ UNCHANGED <<now, st>>

\* lines 60-89: insert the new link and return
IssueInsert(s) ==
    /\ calls[s].pc = "deactivated"
    /\ \E outcome \in InsertOutcomes :
          LET c == calls[s]
              r == GenerateInsert(links, c.baby_id, c.share_token, c.password_hash,
                                  outcome)
          IN  /\ links' = r.links
              /\ last' = [op |-> "generate_share_link", owner |-> TRUE,
                          baby_id |-> c.baby_id, password |-> c.password,
                          failed_at |-> IF outcome # "ok" THEN "insert" ELSE "nowhere",
                          old_tokens |-> c.old_tokens, observed |-> c.observed,
                          result |-> r.result]
    /\ calls' = [calls EXCEPT ![s] = Idle]
    /\ UNCHANGED <<now, st>>

\* a call of another session, made while generate_share_link calls are in
\* progress
RevokeBy(s, baby_id) == calls[s].pc = "idle" /\ Revoke(baby_id)

\* the calls in progress that deactivated links and have not inserted yet,
\* marked when session s is told that none of the `tokens` is active
Observe(s, tokens) ==
    [x \in Sessions |->
        IF x # s /\ calls[x].pc = "deactivated" /\ calls[x].old_tokens \cap tokens # {}
        THEN [calls[x] EXCEPT !.observed = TRUE]
        ELSE calls[x]]

GetActiveBy(s, baby_id) ==
    /\ calls[s].pc = "idle"
    /\ GetActiveCall(baby_id)
    /\ calls' = IF last'.outcome = "ok" /\ last'.result = Null
                THEN Observe(s, {links[i].share_token :
                                    i \in {j \in DOMAIN links : links[j].baby_id = baby_id}})
                ELSE calls

ValidateBy(s, token, password) ==
    /\ calls[s].pc = "idle"
    /\ ValidateCall(token, password)
    /\ calls' = IF last'.outcome = "ok"
                   /\ last'.result = <<FALSE, "Invalid or expired share link">>
                THEN Observe(s, {token})
                ELSE calls

-----------------------------------------------------------------------------
(* Actions: the script runs of src/app.py *)

\* one handler of session s, started on the dict d and the URL query_params
Handle(s, d, query_params, event, password) ==
    /\ \E probe \in ReadOutcomes, form \in ReadOutcomes,
          fetch1 \in FetchOutcomes, fetch2 \in FetchOutcomes :
          \* the outcome of a query the handler does not make is left at "ok"
          /\ event # "submit" => form = "ok"
          /\ ~ViewerAuthenticated(d) => fetch1 = "ok"
          /\ (ViewerAuthenticated(d) /\ event # "exit") => probe = "ok" /\ fetch2 = "ok"
          /\ "share_token" \notin DOMAIN query_params => probe = "ok" /\ fetch2 = "ok"
          /\ fetch1 # "ok" => probe = "ok" /\ fetch2 = "ok"
          /\ probe # "ok" => form = "ok" /\ fetch2 = "ok"
          /\ form # "ok" => fetch2 = "ok"
          /\ \E rs \in {Runs(d, query_params, links, now, event, password,
                               [probe |-> probe, form |-> form, fetch |-> fetch1],
                               [probe |-> probe, form |-> form, fetch |-> fetch2])} :
             \E end \in {rs[Len(rs)]} :
                 /\ fetch2 # "ok" => Len(rs) > 1 /\ end.view = FetchFailure(fetch2)
                 /\ form # "ok" => Len(rs[1].validations) = 2
                 /\ st' = [st EXCEPT ![s] = [session_state |-> end.session_state,
                                             query_params |-> query_params,
                                             view |-> end.view]]
                 /\ last' = [op |-> "main", session |-> s, event |-> event,
                             runs |-> [i \in DOMAIN rs |->
                                          [view |-> rs[i].view,
                                           validations |-> rs[i].validations]]]
    /\ UNCHANGED <<links, now, calls>>

\* the page is opened in the browser: a new session, st.session_state empty
Open(s, query_params) == Handle(s, EmptyDict, query_params, "open", None)

\* the script runs again in the session (a widget was used)
Rerun(s) ==
    /\ st[s].view # NoPage
    /\ Handle(s, st[s].session_state, st[s].query_params, "load", None)

\* the password form is submitted
SubmitPassword(s, password) ==
    /\ st[s].view.page = "password_form"
    /\ Handle(s, st[s].session_state, st[s].query_params, "submit", password)

\* the script runs again in the session with another URL: st.query_params is
\* read anew in every run, the session state is the session's
Request(s, query_params) ==
    /\ st[s].view # NoPage
    /\ "share_token" \in DOMAIN query_params
    /\ Handle(s, st[s].session_state, query_params, "request", None)

\* the Exit Viewer Mode button of the viewer's sidebar is pressed
ExitViewerMode(s) ==
    /\ st[s].view.page = "timeline"
    /\ Handle(s, st[s].session_state, st[s].query_params, "exit", None)

-----------------------------------------------------------------------------
(* Actions: what a granted viewer is shown *)

\* a run of main in a session that holds a grant, the babies row of the
\* session read: the sidebar and show_timeline() are rendered
ViewTimeline(s) ==
    /\ "share_token" \in DOMAIN st[s].query_params
    /\ ViewerAuthenticated(st[s].session_state)
    /\ \E shown \in show_timeline(st[s].session_state, links) :
          last' = [op |-> "show_timeline", session |-> s,
                   subject |-> st[s].session_state["viewer_baby_id"],
                   baby_id |-> shown]
    /\ st' = [st EXCEPT ![s].session_state = Set(@, "viewer_mode", TRUE),
                        ![s].view = Page("timeline", None)]
    /\ UNCHANGED <<links, now, calls>>

\* the Growth Chart page is chosen in the sidebar's navigation by a viewer
ViewGrowthChart(s) ==
    /\ st[s].view # NoPage
    /\ ~is_authenticated(st[s].session_state)
    /\ is_viewer(st[s].session_state)
    /\ last' = [op |-> "growth_chart", session |-> s,
                subject |-> st[s].session_state["viewer_baby_id"],
                baby_id |-> growth_chart(st[s].session_state)]
    /\ st' = [st EXCEPT ![s].query_params = EmptyDict,
                        ![s].view = Page("growth_chart", None)]
    /\ UNCHANGED <<links, now, calls>>

-----------------------------------------------------------------------------
(* Actions: the admin's handlers *)

\* the run that st.rerun() starts after a handler of a page without
\* share_token in its URL: main makes no store query
AfterRerun(r, query_params) ==
    IF r.rerun
    THEN main(r.session_state, query_params, links, now, "load", None,
              [probe |-> "ok", form |-> "ok", fetch |-> "ok"])
    ELSE r

\* the login form is submitted with an email and a password
LoginSubmit(s, sign_in) ==
    /\ st[s].view.page = "login"
    /\ "share_token" \notin DOMAIN st[s].query_params
    /\ ~is_authenticated(st[s].session_state)
    /\ \E r \in {show_login_page(st[s].session_state, sign_in)} :
       \E end \in {AfterRerun(r, st[s].query_params)} :
          /\ st' = [st EXCEPT ![s].session_state = end.session_state,
                              ![s].view = end.view]
          /\ last' = [op |-> "login", session |-> s, sign_in |-> sign_in,
                      result |-> login(st[s].session_state, sign_in).result]
    /\ UNCHANGED <<links, now, calls>>

\* the Logout button of the admin's sidebar is pressed
LogoutClick(s, sign_out) ==
    /\ st[s].view.page = "admin"
    /\ "share_token" \notin DOMAIN st[s].query_params
    /\ is_authenticated(st[s].session_state)
    /\ \E r \in {logout(st[s].session_state, sign_out)} :
       \E end \in {AfterRerun(r, st[s].query_params)} :
          /\ st' = [st EXCEPT ![s].session_state = end.session_state,
                              ![s].view = end.view]
          /\ last' = [op |-> "logout", session |-> s, sign_out |-> sign_out,
                      before |-> st[s].session_state]
    /\ UNCHANGED <<links, now, calls>>

\* the main page is chosen in the sidebar's navigation: the session goes on,
\* the query parameters of the URL are dropped
Navigate(s) ==
    /\ st[s].view # NoPage
    /\ Handle(s, st[s].session_state, EmptyDict, "load", None)

\* one of the admin pages is chosen in the sidebar's navigation
VisitAdminPage(s, page) ==
    /\ st[s].view # NoPage
    /\ st' = [st EXCEPT ![s].query_params = EmptyDict,
                        ![s].view = require_auth(st[s].session_state, page)]
    /\ last' = [op |-> "page", session |-> s, page |-> page]
    /\ UNCHANGED <<links, now, calls>>

\* a button of a rendered admin page is pressed: the page's script runs again
\* from require_auth() and, past it, reaches the button's handler
PagePassed(s, page) ==
    /\ st[s].view.page = page
    /\ require_auth(st[s].session_state, page).page = page

\* the Sharing page: Generate Share Link
PageIssue(s, baby_id, password) ==
    /\ PagePassed(s, "sharing")
    /\ Len(links) < MaxAuthLinks
    /\ Issue(baby_id, password)

\* the Sharing page: Revoke Link
PageRevoke(s, baby_id) ==
    /\ PagePassed(s, "sharing")
    /\ Revoke(baby_id)

\* the Upload Photo and Add Measurement pages: the form is submitted
PageWrite(s, page) ==
    /\ page \in AdminPages \ {"sharing"}
    /\ PagePassed(s, page)
    /\ last' = [op |-> page, session |-> s]
    /\ UNCHANGED <<links, now, calls, st>>

-----------------------------------------------------------------------------
(* Specifications *)

Next ==
    \/ \E b \in Babies, p \in IssuePasswords : Issue(b, p)
    \/ \E b \in Babies : Revoke(b)
    \/ \E b \in Babies : GetActive(b)
    \/ \E t \in TokenArgs, p \in PasswordArgs : Validate(t, p)

Spec == Init /\ [][Next]_vars

\* complete calls on a table whose rows may be given an expiry
NextExpiry ==
    \/ \E b \in Babies, p \in IssuePasswords :
          Len(links) < MaxExpiryLinks /\ Issue(b, p)
    \/ \E b \in Babies : Revoke(b)
    \/ \E t \in TokenArgs, p \in PasswordArgs : Validate(t, p)
    \/ Tick
    \/ \E i \in 1..MaxExpiryLinks, t \in Times : SetExpiresAt(i, t)

SpecExpiry == Init /\ [][NextExpiry]_vars

\* the store operations of the sessions' calls interleave
NextConc ==
    \/ \E s \in Sessions, b \in Babies, p \in IssuePasswords : IssueDeactivate(s, b, p)
    \/ \E s \in Sessions : IssueInsert(s)
    \/ \E s \in Sessions, b \in Babies : RevokeBy(s, b)
    \/ \E s \in Sessions, b \in Babies : GetActiveBy(s, b)
    \/ \E s \in Sessions, t \in TokenArgs, p \in PasswordArgs : ValidateBy(s, t, p)

SpecConc == Init /\ [][NextConc]_vars

\* complete calls, with and without the owner's client
NextOwner ==
    \/ \E b \in Babies, p \in IssuePasswords : Issue(b, p)
    \/ \E b \in Babies, p \in IssuePasswords : IssueByStranger(b, p)
    \/ \E b \in Babies : Revoke(b)
    \/ \E b \in Babies : GetActive(b)

SpecOwner == Init /\ [][NextOwner]_vars

\* complete calls as time passes, on a table only the application writes
NextClock ==
    \/ \E b \in Babies, p \in IssuePasswords :
          Len(links) < MaxClockLinks /\ Issue(b, p)
    \/ \E b \in Babies : Revoke(b)
    \/ \E t \in TokenArgs, p \in PasswordArgs : Validate(t, p)
    \/ Tick

SpecClock == Init /\ [][NextClock]_vars

\* the viewers' sessions and what they are shown, with links issued for more
\* than one baby
NextView ==
    \/ \E b \in Babies, p \in IssuePasswords \ {""} :
          Len(links) < MaxAppLinks /\ Issue(b, p) /\ last'.result[1]
    \/ \E s \in Viewers, q \in Queries : Open(s, q)
    \/ \E s \in Viewers, p \in PasswordArgs \ {None} : SubmitPassword(s, p)
    \/ \E s \in Viewers : ViewTimeline(s)
    \/ \E s \in Viewers : ViewGrowthChart(s)

SpecView == Init /\ [][NextView]_vars

\* the pages of the application in the sessions of the admin and of viewers;
\* links are issued and revoked on the Sharing page only
NextPages ==
    \/ \E s \in Viewers, q \in Queries : Open(s, q)
    \/ \E s \in Viewers : Navigate(s)
    \/ \E s \in Viewers, p \in PasswordArgs \ {None} : SubmitPassword(s, p)
    \/ \E s \in Viewers, r \in SignInOutcomes : LoginSubmit(s, r)
    \/ \E s \in Viewers, r \in SignOutOutcomes : LogoutClick(s, r)
    \/ \E s \in Viewers, page \in AdminPages : VisitAdminPage(s, page)
    \/ \E s \in Viewers, b \in Babies, p \in IssuePasswords : PageIssue(s, b, p)
    \/ \E s \in Viewers, b \in Babies : PageRevoke(s, b)
    \/ \E s \in Viewers, page \in AdminPages : PageWrite(s, page)

SpecPages == Init /\ [][NextPages]_vars

\* the viewers' sessions, the URL of a session changing between its runs
NextRoute ==
    \/ \E b \in Babies, p \in IssuePasswords \ {""} :
          Len(links) < MaxAppLinks /\ Issue(b, p) /\ last'.result[1]
    \/ \E b \in Babies : Revoke(b) /\ last'.result[1]
    \/ \E s \in Viewers, q \in Queries : Open(s, q)
    \/ \E s \in Viewers, p \in PasswordArgs \ {None} : SubmitPassword(s, p)
    \/ \E s \in Viewers, q \in Queries : Request(s, q)

SpecRoute == Init /\ [][NextRoute]_vars

\* the sessions of the admin and of viewers, one handler at a time
NextAuth ==
    \/ \E b \in Babies, p \in IssuePasswords \ {""} :
          Len(links) < MaxAuthLinks /\ Issue(b, p) /\ last'.result[1]
    \/ \E s \in Viewers, q \in Queries : Open(s, q)
    \/ \E s \in Viewers : Rerun(s)
    \/ \E s \in Viewers : Navigate(s)
    \/ \E s \in Viewers, r \in SignInOutcomes : LoginSubmit(s, r)
    \/ \E s \in Viewers, r \in SignOutOutcomes : LogoutClick(s, r)

SpecAuth == Init /\ [][NextAuth]_vars

\* the owner's writes alone: complete generate_share_link and
\* revoke_share_link calls
NextWrites ==
    \/ \E b \in Babies, p \in IssuePasswords : Issue(b, p)
    \/ \E b \in Babies : Revoke(b)

SpecWrites == Init /\ [][NextWrites]_vars

\* revokes among interleaved generate_share_link calls: a revoke may find more
\* than one active link of the baby
NextRevoke ==
    \/ \E s \in Sessions, b \in Babies, p \in IssuePasswords : IssueDeactivate(s, b, p)
    \/ \E s \in Sessions : IssueInsert(s)
    \/ \E s \in Sessions, b \in Babies : RevokeBy(s, b)

SpecRevoke == Init /\ [][NextRevoke]_vars

\* the viewers' sessions and the owner's calls, one handler at a time.  Of
\* the owner's calls, those that succeed: a failed one leaves the table as it
\* was or as a revoke leaves it
NextApp ==
    \/ \E b \in Babies, p \in IssuePasswords \ {""} :
          Len(links) < MaxAppLinks /\ Issue(b, p) /\ last'.result[1]
    \/ \E b \in Babies : Revoke(b) /\ last'.result[1]
    \/ \E s \in Viewers, q \in Queries : Open(s, q)
    \/ \E s \in Viewers : Rerun(s)
    \/ \E s \in Viewers, p \in PasswordArgs \ {None} : SubmitPassword(s, p)
    \/ \E s \in Viewers : ExitViewerMode(s)

SpecApp == Init /\ [][NextApp]_vars

-----------------------------------------------------------------------------
(* Properties *)

\* the rows holding a token
RowsOfToken(token) == {i \in DOMAIN links : links[i].share_token = token}

\* the last call was validate_share_token, it returned, and the store answered
Validated == last.op = "validate_share_token" /\ ~last.raised /\ last.outcome = "ok"

\* the last call was generate_share_link and it returned success
Issued == last.op = "generate_share_link" /\ last.result[1]

\* password p opens row i: the row has no hash, or p hashes to the one it has
Opens(i, p) ==
    links[i].password_hash = Null
        \/ (Truthy(p) /\ bcrypt_checkpw(p, links[i].password_hash))

\* C1: after any sequence of complete generate_share_link and
\* revoke_share_link calls, failed ones included, every baby has at most one
\* row with is_active = true.
C1_AtMostOneActive ==
    \A b \in Babies : Cardinality(ActiveOfBaby(links, b)) <= 1

\* a failed call has left an inactive row beside the active one of its baby
C1_Witness ==
    /\ last.op = "generate_share_link"
    /\ ~last.result[1]
    /\ \E i, j \in DOMAIN links :
          /\ links[i].baby_id = links[j].baby_id
          /\ ~links[i].is_active
          /\ links[j].is_active

\* C2: right after generate_share_link(S, ...) returns success,
\* get_active_share_link(S), when the store answers, returns the row just
\* inserted (its token is the one returned) and none of the rows that were
\* active for S before the call.
C2_IssueThenGetActive ==
    Issued =>
        \A r \in get_active_share_link(links, last.baby_id, "ok") :
            /\ r # Null
            /\ r.share_token = last.result[3]
            /\ r.baby_id = last.baby_id
            /\ r.share_token \notin last.old_tokens

\* a link was issued for a baby that had an active one
C2_Witness == Issued /\ last.old_tokens # {}

\* C3: once a later generate_share_link for the same baby has succeeded,
\* validate_share_token on the token of the earlier link returns a denial,
\* whatever the password.  Rows are in insertion order: a later row of the
\* same baby is a later successful issue.
C3_ReplacedTokenDenied ==
    (last.op = "validate_share_token"
        /\ \E i, j \in DOMAIN links :
              /\ i < j
              /\ links[i].baby_id = links[j].baby_id
              /\ links[i].share_token = last.token)
    => ~last.raised /\ Denied(last.result)

\* the replaced token was presented with a password that opens its row, and
\* the store answered
C3_Witness ==
    /\ Validated
    /\ \E i, j \in DOMAIN links :
          /\ i < j
          /\ links[i].baby_id = links[j].baby_id
          /\ links[i].share_token = last.token
          /\ links[i].password_hash # Null
          /\ Opens(i, last.password)
    /\ Denied(last.result)

\* every row holding token t is inactive, and there is one
Dead(t) == RowsOfToken(t) # {} /\ \A i \in RowsOfToken(t) : ~links[i].is_active

\* C4: from the revoke_share_link call that deactivated the link of token t
\* on, every validate_share_token on t returns a denial, whatever the
\* password: the revoke leaves the row of t inactive, no later step makes an
\* inactive row active or gives it another token, and a token whose row is
\* inactive is denied.
C4_RevokedTokenDenied ==
    /\ [](last.op = "revoke_share_link" => \A t \in last.data : Dead(t))
    /\ [][\A i \in DOMAIN links :
             ~links[i].is_active
                => /\ i \in DOMAIN links'
                   /\ ~links'[i].is_active
                   /\ links'[i].share_token = links[i].share_token]_vars
    /\ []((last.op = "validate_share_token" /\ Dead(last.token))
            => (~last.raised /\ Denied(last.result)))

\* a revoked token is presented with the password that opens its row, the
\* store answers, and no later link exists for its baby
C4_Witness ==
    /\ Validated
    /\ \E i \in RowsOfToken(last.token) :
          /\ ~links[i].is_active
          /\ links[i].password_hash # Null
          /\ Opens(i, last.password)
          /\ \A j \in DOMAIN links : j > i => links[j].baby_id # links[i].baby_id
    /\ Denied(last.result)

\* row i is active and not expired
Live(i) == links[i].is_active /\ ~Expired(links[i], now)

\* row i was issued with password P: its hash is bcrypt's of P, for some salt
ProtectedBy(i, P) ==
    Truthy(P) /\ \E salt \in Salts : links[i].password_hash = bcrypt_hashpw(P, salt)

\* C5 as stated: on an active, non-expired link issued for S with password
\* P, validate_share_token returns password_required without a password, a
\* denial for every password other than P, and (True, S) for P.
C5_AsStated ==
    \A i \in DOMAIN links, P \in IssuePasswords :
        (Validated /\ last.token = links[i].share_token /\ Live(i) /\ ProtectedBy(i, P))
        => IF last.password = None THEN PasswordRequired(last.result)
           ELSE IF last.password = P THEN last.result = <<TRUE, links[i].baby_id>>
           ELSE Denied(last.result)

\* C5, amended: the same, the denial holding for every non-empty password
\* other than P (the empty string is answered like no password).  The store
\* lookup is taken to answer.
C5_PasswordGate ==
    \A i \in DOMAIN links, P \in IssuePasswords :
        (Validated /\ last.token = links[i].share_token /\ Live(i) /\ ProtectedBy(i, P)
            /\ last.password # "")
        => IF last.password = None THEN PasswordRequired(last.result)
           ELSE IF last.password = P THEN last.result = <<TRUE, links[i].baby_id>>
           ELSE Denied(last.result)

\* a wrong, non-empty password was presented on a live protected link
C5_Witness ==
    /\ Validated
    /\ \E i \in DOMAIN links :
          /\ last.token = links[i].share_token
          /\ Live(i)
          /\ ProtectedBy(i, "1234")
    /\ last.password = "wrong"
    /\ last.result = <<FALSE, "Incorrect password">>

\* C6: on an active, non-expired link of S with no password_hash,
\* validate_share_token returns (True, S) for every password argument, None
\* included.  The store lookup is taken to answer.
C6_NoPasswordGranted ==
    \A i \in DOMAIN links :
        (Validated /\ last.token = links[i].share_token /\ Live(i)
            /\ links[i].password_hash = Null)
        => last.result = <<TRUE, links[i].baby_id>>

\* an unprotected live link was presented without any password
C6_Witness ==
    /\ Validated
    /\ \E i \in DOMAIN links :
          /\ last.token = links[i].share_token
          /\ Live(i)
          /\ links[i].password_hash = Null
    /\ last.password = None
    /\ Granted(last.result)

\* C7: on an active link whose expires_at is set and in the past,
\* validate_share_token returns a denial for every password argument: never
\* password_required, never a grant.
C7_ExpiredDenied ==
    \A i \in DOMAIN links :
        (last.op = "validate_share_token" /\ last.token = links[i].share_token
            /\ links[i].is_active /\ links[i].expires_at # Null
            /\ links[i].expires_at[1] < now)
        => ~last.raised /\ Denied(last.result)

\* an expired protected link was presented with the password that opens it
C7_Witness ==
    /\ Validated
    /\ \E i \in DOMAIN links :
          /\ last.token = links[i].share_token
          /\ links[i].is_active
          /\ Expired(links[i], now)
          /\ ProtectedBy(i, last.password)
    /\ last.result = <<FALSE, "This share link has expired">>

\* C8: validate_share_token never raises: it returns a pair whose first
\* component is a boolean (a grant of a baby, password_required or a denial),
\* and when the store lookup raises the pair is the validation-error denial.
C8_ValidateNeverRaises ==
    last.op = "validate_share_token"
    => /\ ~last.raised
       /\ Len(last.result) = 2
       /\ last.result[1] \in BOOLEAN
       /\ Granted(last.result) => last.result[2] \in Babies
       /\ last.outcome # "ok"
            => Denied(last.result) /\ last.result[2] = ValidationError(last.outcome)

\* the lookup of the token of an active link raised
C8_Witness ==
    /\ last.op = "validate_share_token"
    /\ last.outcome = "connection error"
    /\ \E i \in RowsOfToken(last.token) : links[i].is_active
    /\ Denied(last.result)

\* C9: a generate_share_link that fails at the insert leaves the link that
\* was active for the baby active, and validate_share_token still accepts it.
C9_NoPartialState ==
    (last.op = "generate_share_link" /\ ~last.result[1] /\ last.failed_at = "insert")
    => \A t \in last.old_tokens :
          \E i \in RowsOfToken(t) :
              /\ links[i].is_active
              /\ \E p \in PasswordArgs :
                    Granted(validate_share_token(links, now, t, p, "ok").value)

\* C10: a generate_share_link that returns success for a baby that had an
\* active link was never, between its update and its insert, seen by another
\* session's validate_share_token or get_active_share_link with no active
\* link.
C10_NoZeroWindow ==
    (Issued /\ last.old_tokens # {}) => ~last.observed

-----------------------------------------------------------------------------
\* C11: however the store operations of two generate_share_link calls made
\* from different sessions for the same baby interleave, no two distinct
\* rows of the baby are ever active together
C11_NoTwoActiveInterleaved ==
    \A i, j \in DOMAIN links :
        (links[i].baby_id = links[j].baby_id
            /\ links[i].is_active /\ links[j].is_active) => i = j

-----------------------------------------------------------------------------
\* the last call was revoke_share_link and the store answered its update
Revoked == last.op = "revoke_share_link" /\ last.outcome = "ok"

\* C12 as stated: revoke_share_link for a baby with no active link reports a
\* successful result (with count 0)
C12_AsStated ==
    (Revoked /\ last.old_tokens = {}) => last.result[1]

\* C12: revoke_share_link for a baby with no active link raises nothing and
\* leaves every row of the table as it was, and it reports the failure
\* "No active links found to revoke", not a success with count 0
C12_RevokeNothing ==
    [][(Revoked' /\ last'.old_tokens = {})
          => /\ links' = links
             /\ last'.data = {}
             /\ ~last'.result[1]
             /\ last'.result[2] = "No active links found to revoke"]_vars

\* a second revoke of a baby whose link has been revoked already
C12_Witness ==
    /\ Revoked /\ last.old_tokens = {}
    /\ \E i \in DOMAIN links : links[i].baby_id = last.baby_id

-----------------------------------------------------------------------------
\* C13: revoke_share_link deactivates every link of the baby that was active,
\* returns exactly those rows and reports their number, and afterwards the
\* baby has no active link: get_active_share_link returns None
C13_RevokeAll ==
    Revoked =>
        /\ last.data = last.old_tokens
        /\ \A t \in last.old_tokens : Dead(t)
        /\ ActiveOfBaby(links, last.baby_id) = {}
        /\ get_active_share_link(links, last.baby_id, "ok") = {Null}
        /\ last.old_tokens # {} =>
              /\ last.result[1]
              /\ last.result[2] = <<"Revoked", Cardinality(last.old_tokens),
                                    "active link(s)">>

\* a revoke that found two active links of the baby, left there by two
\* interleaved generate_share_link calls, and deactivated both
C13_Witness ==
    /\ Revoked /\ Cardinality(last.old_tokens) = 2
    /\ last.result = <<TRUE, <<"Revoked", 2, "active link(s)">>>>

-----------------------------------------------------------------------------
\* C15: no two rows of share_links hold the same token, and no call removes a
\* row or writes its share_token, baby_id, password_hash or expires_at: after
\* the insert, is_active is the one column that changes
C15_RecordsKept ==
    /\ [](\A i, j \in DOMAIN links :
             links[i].share_token = links[j].share_token => i = j)
    /\ [][\A i \in DOMAIN links :
             /\ i \in DOMAIN links'
             /\ links'[i].share_token = links[i].share_token
             /\ links'[i].baby_id = links[i].baby_id
             /\ links'[i].password_hash = links[i].password_hash
             /\ links'[i].expires_at = links[i].expires_at]_vars

\* a link was issued in place of an older one, which is still stored, inactive
C15_Witness ==
    /\ Issued
    /\ \E i \in DOMAIN links :
          /\ links[i].share_token \in last.old_tokens
          /\ ~links[i].is_active
          /\ links[i].password_hash # Null

-----------------------------------------------------------------------------
\* the last call was get_active_share_link and the store answered its select
GotActive == last.op = "get_active_share_link" /\ last.outcome = "ok"

\* the tokens of the active links of a baby
ActiveTokens(baby_id) == {links[i].share_token : i \in ActiveOfBaby(links, baby_id)}

\* the messages validate_share_token returns with False
ValidateMessages ==
    {"Invalid or expired share link", "This share link has expired",
     "password_required", "Incorrect password",
     ValidationError("violates row-level security"),
     ValidationError("connection error")}

\* C16 as stated: after generate_share_link has handed a token out, no later
\* call, get_active_share_link in particular, returns it
C16_AsStated ==
    (GotActive /\ last.result # Null) => last.result.share_token \notin Tokens

\* C16: get_active_share_link returns the stored row of the baby's active
\* link, share_token included, for as long as the link is active, and None when
\* there is none; validate_share_token returns a baby_id or a message, and
\* revoke_share_link a message with a count, neither of them a token
C16_TokenFromGetActive ==
    /\ GotActive =>
          IF ActiveTokens(last.baby_id) = {}
          THEN last.result = Null
          ELSE /\ last.result # Null
               /\ last.result.share_token \in ActiveTokens(last.baby_id)
    /\ last.op = "validate_share_token" =>
          last.result[2] \in IF last.result[1] THEN Babies ELSE ValidateMessages
    /\ last.op = "revoke_share_link" =>
          IF last.result[1]
          THEN last.result[2] = <<"Revoked", Cardinality(last.data), "active link(s)">>
          ELSE last.result[2] \in {"Failed to revoke links",
                                   "No active links found to revoke"}

\* get_active_share_link returned the token of a password-protected link that
\* had been issued in place of an older one
C16_Witness ==
    /\ GotActive /\ last.result # Null
    /\ last.result.share_token \in Tokens
    /\ last.result.password_hash # Null
    /\ \E i \in DOMAIN links : ~links[i].is_active /\ links[i].baby_id = last.baby_id

-----------------------------------------------------------------------------
\* the last call was generate_share_link with a client that is not the owner's
IssuedByStranger == last.op = "generate_share_link" /\ ~last.owner

\* C14: generate_share_link called by someone who is not the signed-in owner
\* of the baby fails, with "Permission denied. Please log in as admin." when
\* the store rejected the write, and it stores no row: the baby's active links
\* are the ones it had before the call
C14_StrangerDenied ==
    IssuedByStranger =>
        /\ ~last.result[1]
        /\ last.result[3] = None
        /\ last.exc = "violates row-level security" =>
              last.result[2] = "Permission denied. Please log in as admin."
        /\ ActiveTokens(last.baby_id) = last.old_tokens

\* a stranger's call for a baby with an active link: the update reached no
\* row, the insert was rejected, and the owner's link is still the active one
C14_Witness ==
    /\ IssuedByStranger
    /\ last.failed_at = "insert" /\ last.exc = "violates row-level security"
    /\ last.result[2] = "Permission denied. Please log in as admin."
    /\ last.old_tokens # {}
    /\ ActiveTokens(last.baby_id) = last.old_tokens

-----------------------------------------------------------------------------
(* Properties of the viewer's session *)

\* st.session_state of a session
StateOf(s) == st[s].session_state

\* the session holds the flag of a validated viewer
HasGrant(s) ==
    "viewer_authenticated" \in DOMAIN StateOf(s) /\ StateOf(s)["viewer_authenticated"]

\* the baby the session was granted, None when it holds none
SubjectOf(s) ==
    IF "viewer_baby_id" \in DOMAIN StateOf(s) THEN StateOf(s)["viewer_baby_id"] ELSE None

\* the last step was a handler of session s
HandlerOf(s) == last.op = "main" /\ last.session = s

\* the validate_share_token calls of the last handler, in the order made
ValidationsOf(runs) ==
    IF Len(runs) = 1 THEN runs[1].validations
    ELSE IF Len(runs) = 2 THEN runs[1].validations \o runs[2].validations
    ELSE runs[1].validations \o runs[2].validations \o runs[3].validations

\* those of them that returned (True, baby_id)
GrantsOf(runs) == SelectSeq(ValidationsOf(runs), LAMBDA c : Granted(c.result))

\* C17: a session holds viewer_baby_id only together with the flag
\* viewer_authenticated; and a session that holds the flag after a step
\* either held it before the step, in the same browser session and for the
\* same baby, or the step was a handler of that session in which
\* validate_share_token returned True, and the baby stored is the one the last
\* such call returned
C17_GrantOnlyByValidate ==
    /\ [](\A s \in Sessions : "viewer_baby_id" \in DOMAIN StateOf(s) => HasGrant(s))
    /\ [][\A s \in Sessions :
             HasGrant(s)' =>
                \/ /\ HasGrant(s)
                   /\ SubjectOf(s)' = SubjectOf(s)
                   /\ ~(HandlerOf(s)' /\ last'.event = "open")
                \/ /\ HandlerOf(s)'
                   /\ GrantsOf(last'.runs) # <<>>
                   /\ SubjectOf(s)' =
                         GrantsOf(last'.runs)[Len(GrantsOf(last'.runs))].result[2]]_vars

\* the password form was submitted with the password of the link, and the
\* session holds the grant for the baby of the link
C17_Witness ==
    /\ HandlerOf("s1") /\ last.event = "submit"
    /\ HasGrant("s1") /\ SubjectOf("s1") \in Babies
    /\ Len(GrantsOf(last.runs)) = 1
    /\ GrantsOf(last.runs)[1].password = "1234"

-----------------------------------------------------------------------------
\* C18: after the Exit Viewer Mode button has been handled, the session holds
\* neither the flag viewer_authenticated nor a viewer_baby_id
C18_ExitLeavesNoGrant ==
    \A s \in Sessions :
        (HandlerOf(s) /\ last.event = "exit" /\ last.runs[1].view.page = "timeline")
            => ~HasGrant(s) /\ SubjectOf(s) = None

-----------------------------------------------------------------------------
\* C19: a script run started in a session that holds the grant, other than by
\* the Exit Viewer Mode button, calls validate_share_token not once and leaves
\* the grant as it is; and a generate_share_link or revoke_share_link call of
\* the owner changes no session
C19_NoRevalidation ==
    [][/\ \A s \in Sessions :
             (HasGrant(s) /\ HandlerOf(s)' /\ last'.event = "load")
                => /\ ValidationsOf(last'.runs) = <<>>
                   /\ HasGrant(s)'
                   /\ SubjectOf(s)' = SubjectOf(s)
       /\ last'.op \in {"generate_share_link", "revoke_share_link"} => st' = st]_vars

\* the session holds a grant, the link it was opened with has since been
\* deactivated, and a later run was served the timeline with no validation
C19_Witness ==
    /\ HandlerOf("s1") /\ last.event = "load"
    /\ HasGrant("s1")
    /\ ValidationsOf(last.runs) = <<>>
    /\ st["s1"].view.page = "timeline"
    /\ Dead(st["s1"].query_params["share_token"])

-----------------------------------------------------------------------------
\* C20: a run that validates at all validates first with no password, shows
\* the password form exactly when that probe returned "password_required",
\* and when the probe returned another failure shows that message and stops;
\* a handler whose last validation failed leaves the session without a grant.
\* The first run of a session opened with a share_token makes the probe
C20_PromptOnlyWhenRequired ==
    \A s \in Sessions :
        HandlerOf(s) =>
            /\ \A i \in DOMAIN last.runs :
                  LET run == last.runs[i]
                  IN  run.validations # <<>> =>
                         LET probe == run.validations[1]
                         IN  /\ probe.password = None
                             /\ run.view.page = "password_form"
                                   <=> (~probe.result[1]
                                           /\ probe.result[2] = "password_required")
                             /\ (~probe.result[1]
                                    /\ probe.result[2] # "password_required")
                                   => /\ run.view = Page("denied", probe.result[2])
                                      /\ i = Len(last.runs)
            /\ LET vs == ValidationsOf(last.runs)
               IN  (vs # <<>> /\ ~vs[Len(vs)].result[1]) => ~HasGrant(s)
            /\ (last.event = "open" /\ "share_token" \in DOMAIN st[s].query_params)
                  => last.runs[1].validations # <<>>

\* the form was shown because the probe asked for a password, a wrong password
\* was submitted, and the session holds no grant
C20_Witness ==
    /\ HandlerOf("s1") /\ last.event = "submit"
    /\ Len(ValidationsOf(last.runs)) = 2
    /\ ValidationsOf(last.runs)[1].result = <<FALSE, "password_required">>
    /\ ValidationsOf(last.runs)[2].result = <<FALSE, "Incorrect password">>
    /\ st["s1"].view = Page("password_form", "Incorrect password")
    /\ ~HasGrant("s1")

-----------------------------------------------------------------------------
\* C27: a row whose is_active is False keeps it False in every step, and
\* validate_share_token returns True only for a token that an active row holds:
\* a token denied because its link was revoked or replaced is not granted again
C27_DeactivationPermanent ==
    /\ [][\A i \in DOMAIN links :
             ~links[i].is_active => (i \in DOMAIN links' /\ ~links'[i].is_active)]_vars
    /\ [](last.op = "validate_share_token" /\ last.result[1]
             => \E i \in RowsOfToken(last.token) : links[i].is_active)

\* a token was denied after its link had been replaced, with the new link of
\* the baby active
C27_Witness ==
    /\ Validated /\ Dead(last.token)
    /\ last.result = <<FALSE, "Invalid or expired share link">>
    /\ \E i \in RowsOfToken(last.token) : ActiveOfBaby(links, links[i].baby_id) # {}

-----------------------------------------------------------------------------
\* the answers of validate_share_token on table ls for a token, one for each
\* password argument
AnswersOn(ls, token) ==
    [p \in PasswordArgs |-> validate_share_token(ls, now, token, p, "ok").value]

\* C28: a generate_share_link or revoke_share_link call for a baby leaves the
\* rows of every other baby as they were, and with them what
\* get_active_share_link returns for the other baby and what
\* validate_share_token answers on its tokens
C28_OtherBabiesUntouched ==
    [][last'.op \in {"generate_share_link", "revoke_share_link"} =>
          /\ \A i \in DOMAIN links :
                links[i].baby_id # last'.baby_id =>
                   /\ i \in DOMAIN links' /\ links'[i] = links[i]
                   /\ AnswersOn(links', links[i].share_token)
                         = AnswersOn(links, links[i].share_token)
          /\ \A b \in Babies \ {last'.baby_id} :
                get_active_share_link(links', b, "ok") = get_active_share_link(links, b, "ok")]_vars

\* a link was issued for one baby while another baby has an active,
\* password-protected link
C28_Witness ==
    /\ Issued
    /\ \E i \in DOMAIN links :
          /\ links[i].baby_id # last.baby_id
          /\ links[i].is_active
          /\ links[i].password_hash # Null

-----------------------------------------------------------------------------
\* C30: generate_share_link with password "" stores a row with no
\* password_hash; validate_share_token on the token of an active row with no
\* password_hash returns (True, baby_id) whatever the password argument; and
\* with password "" on the token of an active row that has a password_hash it
\* returns "password_required"
C30_EmptyPasswordIsNone ==
    /\ (Issued /\ last.password = "") =>
          \A i \in RowsOfToken(last.result[3]) : links[i].password_hash = Null
    /\ \A i \in DOMAIN links :
          (Validated /\ last.token = links[i].share_token /\ links[i].is_active) =>
             IF links[i].password_hash = Null
             THEN last.result = <<TRUE, links[i].baby_id>>
             ELSE last.password = "" => last.result = <<FALSE, "password_required">>

\* a link was issued with password "" in place of an older link
C30_Witness ==
    /\ Issued /\ last.password = "" /\ last.old_tokens # {}
    /\ \E i \in RowsOfToken(last.result[3]) :
          links[i].is_active /\ links[i].password_hash = Null

-----------------------------------------------------------------------------
\* C25: a row inserted by generate_share_link has no expires_at, and at
\* every time validate_share_token on the token of a link that is still
\* active, with a password that opens it, returns (True, baby_id)
C25_NoExpiry ==
    /\ \A i \in DOMAIN links : links[i].expires_at = Null
    /\ \A i \in DOMAIN links :
          (Validated /\ last.token = links[i].share_token
                     /\ links[i].is_active /\ Opens(i, last.password))
             => last.result = <<TRUE, links[i].baby_id>>

\* a password-protected link was granted at the last instant of the clock
C25_Witness ==
    /\ Validated /\ now = MaxTime /\ last.result[1]
    /\ \E i \in RowsOfToken(last.token) : links[i].password_hash # Null

-----------------------------------------------------------------------------
\* C21: a validate_share_token call leaves the table and every session's
\* state as they were, and a call repeated right after with the same token
\* and password, nothing in between, returns what the first returned (the
\* store answering both)
C21_ValidateReadOnly ==
    [][last'.op = "validate_share_token" =>
          /\ links' = links
          /\ st' = st
          /\ (Validated /\ last'.outcome = "ok"
                /\ last'.token = last.token /\ last'.password = last.password)
                => last'.result = last.result]_vars

\* a link was granted with its password, on a table the call found and left
\* with an active protected link
C21_Witness ==
    /\ Validated /\ last.result[1] /\ last.password = "1234"
    /\ \E i \in RowsOfToken(last.token) : links[i].is_active /\ links[i].password_hash # Null

-----------------------------------------------------------------------------
\* C26: whenever login returns (False, message), the session is not
\* authenticated after the handler of the login form
C26_FailedLoginStoresNothing ==
    (last.op = "login" /\ ~last.result[1]) => ~is_authenticated(StateOf(last.session))

-----------------------------------------------------------------------------
\* C24: after the handler of the Logout button the session state holds no
\* key, whatever sign_out did and whatever keys the session held, and
\* is_authenticated() is false
C24_LogoutClearsAll ==
    last.op = "logout" =>
        /\ DOMAIN StateOf(last.session) = {}
        /\ ~is_authenticated(StateOf(last.session))

\* a session that held the admin's keys and a viewer's flags was logged out
\* with sign_out raising
C24_Witness ==
    /\ last.op = "logout" /\ last.sign_out # "ok"
    /\ {"authenticated", "supabase", "viewer_authenticated", "viewer_baby_id"}
          \subseteq DOMAIN last.before
    /\ st[last.session].view.page = "login"

-----------------------------------------------------------------------------
\* C22: the timeline and the growth chart rendered in a granted viewer's
\* session are those of the session's viewer_baby_id
C22_OnlyOwnSubject ==
    last.op \in {"show_timeline", "growth_chart"} => last.baby_id = last.subject

-----------------------------------------------------------------------------
\* C23: a session is shown an admin page (Upload Photo, Add Measurement,
\* Sharing) only while it is authenticated as admin, whatever viewer flags it
\* holds; a photo or measurement is written only from an authenticated
\* session, and generate_share_link and revoke_share_link are called only
\* while an authenticated session has the Sharing page
C23_ViewerReadOnly ==
    /\ [](/\ \A s \in Sessions :
                st[s].view.page \in AdminPages => is_authenticated(StateOf(s))
          /\ last.op \in AdminPages => is_authenticated(StateOf(last.session)))
    /\ [][last'.op \in {"generate_share_link", "revoke_share_link"} =>
             \E s \in Sessions :
                st[s].view.page = "sharing" /\ is_authenticated(StateOf(s))]_vars

\* a session that holds a viewer's grant and is not authenticated chose the
\* Sharing page and was stopped
C23_Witness ==
    /\ last.op = "page" /\ last.page = "sharing"
    /\ HasGrant(last.session) /\ ~is_authenticated(StateOf(last.session))
    /\ st[last.session].view.page = "access_denied"
    /\ \E i \in DOMAIN links : links[i].is_active

-----------------------------------------------------------------------------
\* C29: in a session that holds a viewer's grant, a run of main whose URL
\* carries a share_token, whichever it is, makes no validate_share_token
\* call, keeps the grant and its baby, and takes the branch of the validated
\* viewer: the timeline, or the message of the babies query that failed
C29_GrantNotBoundToToken ==
    [][\A s \in Sessions :
          (/\ last'.op = "main" /\ last'.session = s /\ last'.event = "request"
           /\ ViewerAuthenticated(StateOf(s)))
          => /\ ValidationsOf(last'.runs) = <<>>
             /\ ViewerAuthenticated(st'[s].session_state)
             /\ st'[s].session_state["viewer_baby_id"] = SubjectOf(s)
             /\ \/ st'[s].view = Page("timeline", None)
                \/ st'[s].view \in {FetchFailure(f) : f \in FetchOutcomes \ {"ok"}}]_vars

\* a session granted for one baby was shown the timeline on a request whose
\* token no active link holds
C29_Witness ==
    /\ last.op = "main" /\ last.event = "request"
    /\ HasGrant(last.session)
    /\ st[last.session].view = Page("timeline", None)
    /\ \A i \in RowsOfToken(st[last.session].query_params["share_token"]) :
          ~links[i].is_active
    /\ \E i \in DOMAIN links : links[i].is_active /\ links[i].baby_id # SubjectOf(last.session)

=============================================================================
